---- MODULE Spec2Model ----
(***************************************************************************)
(* Resilient serving layer of the URL shortener: the connection-limiting   *)
(* middleware of the server, the Redis circuit breaker, the cache-aside    *)
(* read path (urlCacheService.getShortUrl) and the write path              *)
(* (createShortUrlWithoutUser) with its background persistence.            *)
(*                                                                         *)
(* Twelve specifications share the variables below:                       *)
(*   SpecConn   the connection-limiting middleware and the response events *)
(*   SpecCB     the circuit breaker with calls in flight                   *)
(*   SpecWrite  create and background persistence over the store          *)
(*   SpecRead   lookups over the store and the cache, going through the    *)
(*              circuit breaker                                            *)
(*   SpecRW     creates through the service, each followed by lookups of   *)
(*              the code it returned                                       *)
(*   SpecQueue  the concurrency / queue gate and the response events       *)
(*   SpecGlobal the global rate limiter                                    *)
(*   SpecChain  the order in which the admission middlewares run           *)
(*   SpecBucket the per-client token bucket, one check at a time           *)
(*   SpecBucketRace the token bucket with checks suspended at their awaits *)
(*   SpecPersist one create from its request to its response, with the     *)
(*              background persistence that outlives it                    *)
(*   SpecQueueStream the gate under an unending stream of requests, with   *)
(*              fairness on the completion of requests                     *)
(***************************************************************************)
EXTENDS Integers, Sequences, FiniteSets, TLC

VARIABLES
  \* ---- connection-limiting middleware (server entry file)
  activeConnections,    \* let activeConnections
  connectionRejections, \* let connectionRejections
  reqStage,             \* per request: "new" | "handling" | "rejected"
  finished,             \* per request: res has emitted 'finish'
  closed,               \* per request: res has emitted 'close'
  decs,                 \* per request: how often its listeners decremented
  \* ---- circuit breaker
  cb,                   \* redisCircuitBreaker: state, failureCount, lastFailureTime, successCount
  now,                  \* Date.now(), in ms
  inflight,             \* wrapped operations awaited inside execute()
  ev,                   \* what the last breaker step was
  failRun,              \* failed calls completed since the last successful one
  probeClean,           \* no call has failed since HALF_OPEN was entered
  probeSucc,            \* calls that succeeded since HALF_OPEN was entered
  \* ---- persistent store, cache, write path and read path
  store,                \* ShortUrl collection: short_url -> [full_url, clicks]
  cache,                \* Redis keys url:<code> -> cached mapping
  analytics,            \* Redis keys analytics:<code>: totalClicks
  pendingIns,           \* urlSchema.create calls that lost a timeout race and are still running
  pendingInc,           \* codes with a findOneAndUpdate that lost a timeout race and is still running
  call,                 \* the createShortUrlWithoutUser call in progress (or the last one)
  bg,                   \* background persistence tasks, in the order they were scheduled
  last,                 \* the step taken last
  nCreates,             \* create calls started
  nReads,               \* lookups made
  \* ---- concurrency / queue gate (server entry file)
  processingRequests,   \* let processingRequests
  requestQueue,         \* const requestQueue: the waiting requests, head first
  queueRejections,      \* let queueRejections
  qStage,               \* per request: "new" | "queued" | "admitted" | "late" | "rejected"
  qHealth,              \* per request: req.path is /health or /metrics
  qListening,           \* per request: its onDone is registered on 'finish' and 'close'
  qFinished,            \* per request: res has emitted 'finish'
  qClosed,              \* per request: res has emitted 'close'
  qOver,                \* per request: its handler has ended its response
  qDecs,                \* per request: how often its onDone decremented
  qTicket,              \* per request: its number in the order of queueing (0: never queued)
  qReply,               \* per request: the 503 the gate answered it with, if any
  \* ---- global rate limiter (server entry file)
  globalRequestCount,   \* let globalRequestCount
  globalWindowStart,    \* let globalWindowStart
  gEv,                  \* what the last step of the stage was: "none" | "tick" | "pass" | "reject"
  gRetryAfter,          \* retryAfter of the 429 answered last (0: the last request passed)
  \* ---- middleware chain
  chTrace,              \* per request: the admission middlewares that have run for it, in order
  chRejected,           \* per request: the middleware that answered it, or "none"
  \* ---- per-client token bucket (urlCacheService.checkRateLimit)
  tbState,              \* the value under the key tb:<ip>
  tbReply,              \* outcome of the last check: "none" | "allowed" | "denied"
  tbLast,               \* the last step of the bucket: what the check loaded, saw and answered
  tbCall,               \* per caller: a checkRateLimit call between its cache read and its cache write
  tbAllowed             \* checks of the client that were allowed so far

connVars == <<activeConnections, connectionRejections, reqStage, finished, closed, decs>>
cbVars == <<cb, now, inflight, ev, failRun, probeClean, probeSucc>>
rwVars == <<store, cache, analytics, pendingIns, pendingInc, call, bg, last, nCreates, nReads>>
qVars == <<processingRequests, requestQueue, queueRejections, qStage, qHealth, qListening,
           qFinished, qClosed, qOver, qDecs, qTicket, qReply>>
gVars == <<globalRequestCount, globalWindowStart, gEv, gRetryAfter>>
chVars == <<chTrace, chRejected>>
tbVars == <<tbState, tbReply, tbLast, tbCall, tbAllowed>>
admVars == <<qVars, gVars, chVars, tbVars>>
vars == <<connVars, cbVars, rwVars, admVars>>

(***************************************************************************)
(* Bounds of the model and configured values                               *)
(***************************************************************************)
\* requests the connection model follows
NumRequests == 3
\* MAX_CONNECTIONS is 5000 in the server; the model runs the same comparison
\* against a ceiling small enough for three requests to cross it
MAX_CONNECTIONS == 2
\* calls the breaker model lets wait on their operation at the same time
MaxInflight == 2
\* the clock advances in steps of TickMs up to MaxNow
TickMs == 30000
MaxNow == 90000

\* new CircuitBreaker(): failureThreshold = 10, recoveryTimeout = 60000
failureThreshold == 10
recoveryTimeout == 60000
\* this.minSuccessCount = 3
minSuccessCount == 3
\* this.lastFailureTime = null
NULL == -1

Reqs == 1..NumRequests

(***************************************************************************)
(* Connection-limiting middleware                                          *)
(***************************************************************************)
\* res.on('finish', () => { activeConnections--; })
connOnFinish(a) == a - 1

\* res.on('close', () => { activeConnections--; })
connOnClose(a) == a - 1

\* if (activeConnections > MAX_CONNECTIONS)
connRejects(a) == a > MAX_CONNECTIONS

InitConn ==
  /\ activeConnections = 0
  /\ connectionRejections = 0
  /\ reqStage = [r \in Reqs |-> "new"]
  /\ finished = [r \in Reqs |-> FALSE]
  /\ closed = [r \in Reqs |-> FALSE]
  /\ decs = [r \in Reqs |-> 0]

\* A request reaches the middleware: it is counted, both listeners are
\* registered, and it is either answered 503 or passed on with next().
ConnArrive(r) ==
  /\ reqStage[r] = "new"
  /\ activeConnections' = activeConnections + 1
  /\ IF connRejects(activeConnections + 1)
       THEN /\ connectionRejections' = connectionRejections + 1
            /\ reqStage' = [reqStage EXCEPT ![r] = "rejected"]
       ELSE /\ connectionRejections' = connectionRejections
            /\ reqStage' = [reqStage EXCEPT ![r] = "handling"]
  /\ UNCHANGED <<finished, closed, decs, cbVars, rwVars, admVars>>

\* The response has been written out (the 503 of the middleware or the
\* answer of a later handler): res emits 'finish'.
EmitFinish(r) ==
  /\ reqStage[r] # "new"
  /\ ~finished[r]
  /\ ~closed[r]
  /\ finished' = [finished EXCEPT ![r] = TRUE]
  /\ activeConnections' = connOnFinish(activeConnections)
  /\ decs' = [decs EXCEPT ![r] = @ + 1]
  /\ UNCHANGED <<connectionRejections, reqStage, closed, cbVars, rwVars, admVars>>

\* res emits 'close': after 'finish' for a completed response, or alone
\* when the client disconnects before the response is complete.
EmitClose(r) ==
  /\ reqStage[r] # "new"
  /\ ~closed[r]
  /\ closed' = [closed EXCEPT ![r] = TRUE]
  /\ activeConnections' = connOnClose(activeConnections)
  /\ decs' = [decs EXCEPT ![r] = @ + 1]
  /\ UNCHANGED <<connectionRejections, reqStage, finished, cbVars, rwVars, admVars>>

NextConn ==
  \E r \in Reqs : ConnArrive(r) \/ EmitFinish(r) \/ EmitClose(r)

(***************************************************************************)
(* Circuit breaker                                                         *)
(***************************************************************************)
\* constructor
CircuitBreaker ==
  [state |-> "CLOSED", failureCount |-> 0, lastFailureTime |-> NULL, successCount |-> 0]

\* Date.now() - this.lastFailureTime > this.recoveryTimeout (null counts as 0)
RecoveryElapsed(b, t) ==
  t - (IF b.lastFailureTime = NULL THEN 0 ELSE b.lastFailureTime) > recoveryTimeout

\* execute(): the call is refused with 'Circuit breaker is OPEN'
executeRejects_never(b, t) == FALSE

executeRejects(b, t) == b.state = "OPEN" /\ ~RecoveryElapsed(b, t)

\* execute(): the breaker as the admitted call leaves it before the operation runs
executeAdmit(b, t) ==
  IF b.state = "OPEN" /\ RecoveryElapsed(b, t)
    THEN [b EXCEPT !.state = "HALF_OPEN", !.successCount = 0]
    ELSE b

onSuccess_keepCount(b) ==
  IF b.state = "HALF_OPEN"
    THEN LET b2 == [b EXCEPT !.successCount = @ + 1] IN
         IF b2.successCount >= minSuccessCount
           THEN [b2 EXCEPT !.state = "CLOSED"]
           ELSE b2
    ELSE [b EXCEPT !.state = "CLOSED"]

onSuccess_noClose(b) ==
  LET b1 == [b EXCEPT !.failureCount = 0] IN
  IF b1.state = "HALF_OPEN"
    THEN [b1 EXCEPT !.successCount = @ + 1]
    ELSE [b1 EXCEPT !.state = "CLOSED"]

onSuccess(b) ==
  LET b1 == [b EXCEPT !.failureCount = 0] IN
  IF b1.state = "HALF_OPEN"
    THEN LET b2 == [b1 EXCEPT !.successCount = @ + 1] IN
         IF b2.successCount >= minSuccessCount
           THEN [b2 EXCEPT !.state = "CLOSED"]
           ELSE b2
    ELSE [b1 EXCEPT !.state = "CLOSED"]

onFailure_noStamp(b, t) ==
  LET b1 == [b EXCEPT !.failureCount = @ + 1] IN
  IF b1.failureCount >= failureThreshold
    THEN [b1 EXCEPT !.state = "OPEN"]
    ELSE b1

onFailure_lateOpen(b, t) ==
  LET b1 == [b EXCEPT !.failureCount = @ + 1, !.lastFailureTime = t] IN
  IF b1.failureCount > failureThreshold
    THEN [b1 EXCEPT !.state = "OPEN"]
    ELSE b1

onFailure(b, t) ==
  LET b1 == [b EXCEPT !.failureCount = @ + 1, !.lastFailureTime = t] IN
  IF b1.failureCount >= failureThreshold
    THEN [b1 EXCEPT !.state = "OPEN"]
    ELSE b1

InitCB ==
  /\ cb = CircuitBreaker
  /\ now = 0
  /\ inflight = 0
  /\ ev = "none"
  /\ failRun = 0
  /\ probeClean = FALSE
  /\ probeSucc = 0

\* time passes
Advance ==
  /\ now + TickMs <= MaxNow
  /\ now' = now + TickMs

Tick ==
  /\ Advance
  /\ ev' = "tick"
  /\ UNCHANGED <<cb, inflight, failRun, probeClean, probeSucc, connVars, admVars, rwVars>>

\* a caller enters execute(operation)
ExecuteCall ==
  /\ inflight < MaxInflight
  /\ IF executeRejects(cb, now)
       THEN /\ ev' = "rejected"
            /\ UNCHANGED <<cb, inflight, probeClean, probeSucc>>
       ELSE /\ ev' = "invoked"
            /\ cb' = executeAdmit(cb, now)
            /\ inflight' = inflight + 1
            /\ probeClean' = IF cb.state = "OPEN" THEN TRUE ELSE probeClean
            /\ probeSucc' = IF cb.state = "OPEN" THEN 0 ELSE probeSucc
  /\ UNCHANGED <<now, failRun, connVars, admVars, rwVars>>

\* an awaited operation resolves
OperationSucceeds ==
  /\ inflight > 0
  /\ inflight' = inflight - 1
  /\ cb' = onSuccess(cb)
  /\ ev' = "success"
  /\ failRun' = 0
  /\ probeSucc' = IF cb.state = "HALF_OPEN" THEN probeSucc + 1 ELSE 0
  /\ probeClean' = (probeClean /\ cb.state = "HALF_OPEN")
  /\ UNCHANGED <<now, connVars, admVars, rwVars>>

\* an awaited operation rejects (the 2000 ms 'Cache timeout' of the lookup)
OperationFails ==
  /\ inflight > 0
  /\ inflight' = inflight - 1
  /\ cb' = onFailure(cb, now)
  /\ ev' = "failure"
  /\ failRun' = failRun + 1
  /\ probeClean' = FALSE
  /\ UNCHANGED <<now, probeSucc, connVars, admVars, rwVars>>

NextCB == Tick \/ ExecuteCall \/ OperationSucceeds \/ OperationFails

(***************************************************************************)
(* Persistent store and cache                                              *)
(***************************************************************************)
\* generateNanoId(8) draws from Codes; callers send long URLs from Urls
Codes == {"c1", "c2"}
Urls == {"u1"}
NoCode == "none"
NoUrl == "none"

\* How a store operation goes: it is answered in time ("reach"), it does not
\* resolve before the timeout it is raced against and keeps running
\* ("timeout"), or the connection check fails before it is sent ("down").
StoreModes == {"reach", "timeout", "down"}
\* cacheService.get: the stored value ("ok"), null because Redis is
\* unavailable or the command failed ("null"), or no answer within the
\* 2000 ms race of the lookup ("timeout")
CacheGetModes == {"ok", "null", "timeout"}
\* cacheService.set / incr: done ("ok") or false / 0 ("fail")
CacheSetModes == {"ok", "fail"}

\* urlSchema.create under the unique index on short_url
storeInsert(st, code, url) ==
  [c \in DOMAIN st \cup {code} |->
     IF c = code THEN [full_url |-> url, clicks |-> 0] ELSE st[c]]

saveOutcome_noIndex(o, code, st) == IF o = "reach" THEN "ok" ELSE o

\* saveShortUrl: what the caller sees
saveOutcome(o, code, st) ==
  IF o = "reach" THEN (IF code \in DOMAIN st THEN "exists" ELSE "ok") ELSE o

\* saveShortUrl: the store afterwards
saveStore(o, code, url, st) ==
  IF saveOutcome(o, code, st) = "ok" THEN storeInsert(st, code, url) ELSE st

\* saveShortUrl: a create that lost its race is not cancelled
savePending(o, code, url, pend) ==
  IF o = "timeout" THEN pend \cup {[code |-> code, url |-> url]} ELSE pend

\* findOneAndUpdate({short_url}, {$inc: {clicks: 1}}, {new: true})
storeIncrement_none(st, code) == st

storeIncrement(st, code) ==
  IF code \in DOMAIN st THEN [st EXCEPT ![code].clicks = @ + 1] ELSE st

\* cacheService.set(`url:${code}`, {full_url, short_url, clicks}, ttl)
cacheSet(ca, cs, code, url) ==
  IF cs = "ok"
    THEN [c \in DOMAIN ca \cup {code} |->
            IF c = code THEN [full_url |-> url, short_url |-> code] ELSE ca[c]]
    ELSE ca

cacheDrop(ca, code) == [c \in DOMAIN ca \ {code} |-> ca[c]]

(***************************************************************************)
(* createShortUrlWithoutUser                                               *)
(***************************************************************************)
\* const maxCollisions = 5
maxCollisions == 5
\* const maxRetries = 3
maxRetries == 3
\* create calls and lookups the model follows
MaxCreates == 1
MaxReads == 2
\* lookups that SpecRW lets follow the creates
MaxLookups == 1

IdleCall ==
  [pc |-> "idle", url |-> NoUrl, custom |-> NoCode, attempt |-> 0, code |-> NoCode,
   inserts |-> 0, gens |-> 0, colls |-> 0, out |-> "none", result |-> "none",
   ret |-> NoCode, sets |-> 0, cw |-> FALSE, bgs |-> 0]

NoStep ==
  [kind |-> "none", code |-> NoCode, url |-> NoUrl, path |-> "none", out |-> "none",
   custom |-> FALSE, cw |-> FALSE, adm |-> FALSE, co |-> "none", q |-> 0, rt |-> 0]

EnvStep == NoStep

\* if (customShortId)
usesCustom_never(k) == FALSE

usesCustom_always(k) == TRUE

usesCustom(k) == k # NoCode

\* for (let attempt = 0; attempt <= maxCollisions; attempt++)
loopContinues(attempt) == attempt <= maxCollisions

\* error.message === "Short URL already exists" && attempt < maxCollisions
retriesCollision_early(out, attempt) == out = "exists" /\ attempt < maxCollisions - 1

retriesCollision(out, attempt) == out = "exists" /\ attempt < maxCollisions

\* retryCount < maxRetries && !saveError.message.includes('already exists')
bgRetries_once(rc, out) == rc < 1 /\ out # "exists"

bgRetries(rc, out) == rc < maxRetries /\ out # "exists"

\* setTimeout(async () => { ... retrySave(); }, 100)
bgStartDelay == 100

\* const delay = Math.pow(2, retryCount) * 1000
bgDelay_fixed(rc) == 1000

bgDelay(rc) == (2 ^ rc) * 1000

\* the request whose create is followed to its response
Creator == 1

\* the value the degrade path puts under url:<code>
degradeUrl_none(url) == NoUrl

degradeUrl(url) == url

createStep(c) ==
  [NoStep EXCEPT !.kind = "create", !.code = c.ret, !.url = c.url, !.path = c.result,
                 !.out = c.out, !.custom = usesCustom(c.custom), !.cw = c.cw]

\* the controller calls createShortUrlWithoutUser(url, customShortId)
CreateBegin(u, k) ==
  /\ call.pc \in {"idle", "done", "responded"}
  /\ nCreates < MaxCreates
  /\ nCreates' = nCreates + 1
  /\ call' = [IdleCall EXCEPT !.pc = "run", !.url = u, !.custom = k]
  /\ last' = EnvStep
  /\ UNCHANGED <<store, cache, analytics, pendingIns, pendingInc, bg, nReads, connVars, admVars, cbVars>>

\* custom branch: one saveShortUrl raced against 2500 ms
CreateCustom(o) ==
  /\ call.pc = "run"
  /\ usesCustom(call.custom)
  /\ LET out == saveOutcome(o, call.custom, store)
         done == [call EXCEPT !.pc = "done", !.code = call.custom, !.inserts = @ + 1,
                              !.out = out,
                              !.result = IF out = "ok" THEN "ok"
                                         ELSE IF out = "exists" THEN "conflict"
                                         ELSE "error",
                              !.ret = IF out = "ok" THEN call.custom ELSE NoCode]
     IN /\ store' = saveStore(o, call.custom, call.url, store)
        /\ pendingIns' = savePending(o, call.custom, call.url, pendingIns)
        /\ call' = done
        /\ last' = createStep(done)
  /\ UNCHANGED <<cache, analytics, pendingInc, bg, nCreates, nReads, connVars, admVars, cbVars>>

\* one pass of the loop: generate a code, race saveShortUrl against 2500 ms;
\* return, back off and continue, or degrade (cache the mapping, schedule
\* background persistence, return the code)
CreateAttempt(g, o, cs) ==
  /\ call.pc = "run"
  /\ ~usesCustom(call.custom)
  /\ LET out == saveOutcome(o, g, store)
         tried == [call EXCEPT !.code = g, !.gens = @ + 1, !.inserts = @ + 1, !.out = out,
                               !.colls = IF out = "exists" THEN @ + 1 ELSE @]
     IN /\ (out = "ok" \/ retriesCollision(out, call.attempt)) => cs = "ok"
        /\ IF ~loopContinues(call.attempt)
          THEN \* throw new Error("Failed to generate unique short URL after maximum attempts")
               /\ call' = [call EXCEPT !.pc = "done", !.result = "exhausted"]
               /\ last' = createStep([call EXCEPT !.pc = "done", !.result = "exhausted"])
               /\ UNCHANGED <<store, pendingIns, cache, bg>>
          ELSE /\ store' = saveStore(o, g, call.url, store)
               /\ pendingIns' = savePending(o, g, call.url, pendingIns)
               /\ IF out = "ok"
                    THEN /\ call' = [tried EXCEPT !.pc = "done", !.result = "ok", !.ret = g]
                         /\ last' = createStep([tried EXCEPT !.result = "ok", !.ret = g])
                         /\ UNCHANGED <<cache, bg>>
                    ELSE IF retriesCollision(out, call.attempt)
                      THEN /\ call' = [tried EXCEPT !.attempt = @ + 1]
                           /\ last' = EnvStep
                           /\ UNCHANGED <<cache, bg>>
                      ELSE /\ cache' = cacheSet(cache, cs, g, degradeUrl(call.url))
                           /\ bg' = Append(bg, [code |-> g, url |-> call.url, retryCount |-> 0,
                                                st |-> "scheduled", out |-> "none",
                                                delay |-> bgStartDelay, gone |-> FALSE])
                           /\ call' = [tried EXCEPT !.pc = "done", !.result = "degraded",
                                                    !.ret = g, !.sets = @ + 1,
                                                    !.cw = (cs = "ok"), !.bgs = @ + 1]
                           /\ last' = createStep([tried EXCEPT !.result = "degraded", !.ret = g,
                                                               !.cw = (cs = "ok")])
  /\ UNCHANGED <<analytics, pendingInc, nCreates, nReads, connVars, admVars, cbVars>>

\* the controller, after the service returned a code:
\* urlCacheService.cacheNewUrl(shortUrl, urlData), not awaited
ControllerCaches(cs) ==
  /\ call.pc = "done"
  /\ call.result \in {"ok", "degraded"}
  /\ cache' = cacheSet(cache, cs, call.ret, call.url)
  /\ call' = [call EXCEPT !.pc = "responded"]
  /\ last' = EnvStep
  /\ UNCHANGED <<store, analytics, pendingIns, pendingInc, bg, nCreates, nReads, connVars, admVars, cbVars>>

\* retrySave of background task i, run by its timer: saveShortUrl, then done,
\* rescheduled after bgDelay or given up.  The timer belongs to no request:
\* gone records whether the creating client had already disconnected.
BgAttempt(i, o) ==
  /\ i \in DOMAIN bg
  /\ bg[i].st = "scheduled"
  /\ LET t == bg[i]
         out == saveOutcome(o, t.code, store)
         rc == IF out = "ok" THEN t.retryCount ELSE t.retryCount + 1
         st == IF out = "ok" THEN "done"
               ELSE IF bgRetries(rc, out) THEN "scheduled" ELSE "failed"
     IN /\ store' = saveStore(o, t.code, t.url, store)
        /\ pendingIns' = savePending(o, t.code, t.url, pendingIns)
        /\ bg' = [bg EXCEPT ![i] = [t EXCEPT !.retryCount = rc, !.st = st, !.out = out,
                                              !.delay = IF st = "scheduled" THEN bgDelay(rc) ELSE @,
                                              !.gone = closed[Creator]]]
  /\ last' = EnvStep
  /\ UNCHANGED <<cache, analytics, pendingInc, call, nCreates, nReads, connVars, admVars, cbVars>>

\* a create that lost its race reaches the store after all
PendingInsertLands(p) ==
  /\ p \in pendingIns
  /\ store' = saveStore("reach", p.code, p.url, store)
  /\ pendingIns' = pendingIns \ {p}
  /\ last' = EnvStep
  /\ UNCHANGED <<cache, analytics, pendingInc, call, bg, nCreates, nReads, connVars, admVars, cbVars>>

\* a findOneAndUpdate that lost its race reaches the store after all
PendingIncrementLands(c) ==
  /\ c \in pendingInc
  /\ store' = storeIncrement(store, c)
  /\ pendingInc' = pendingInc \ {c}
  /\ last' = EnvStep
  /\ UNCHANGED <<cache, analytics, pendingIns, call, bg, nCreates, nReads, connVars, admVars, cbVars>>

\* the TTL of url:<code> runs out
CacheExpires(c) ==
  /\ c \in DOMAIN cache
  /\ cache' = cacheDrop(cache, c)
  /\ last' = EnvStep
  /\ UNCHANGED <<store, analytics, pendingIns, pendingInc, call, bg, nCreates, nReads, connVars, admVars, cbVars>>

\* time passes: long enough for the recovery timeout to run out
RWTick ==
  /\ now + recoveryTimeout + TickMs <= MaxNow
  /\ now' = now + recoveryTimeout + TickMs
  /\ last' = EnvStep
  /\ UNCHANGED <<cb, inflight, ev, failRun, probeClean, probeSucc, connVars, admVars,
                 store, cache, analytics, pendingIns, pendingInc, call, bg, nCreates, nReads>>

(***************************************************************************)
(* urlCacheService.getShortUrl                                             *)
(***************************************************************************)
\* the mapping is written back after a store hit on the miss path
repopulates_never(found) == FALSE

repopulates(found) == found

\* catch (fallbackError): 'Fallback also failed' is logged and null is returned
fallbackCatch_rethrow == "raised"

fallbackCatch == "fallback_failed"

\* performanceMonitor.recordResponseTime(Date.now() - startTime): the calls a
\* lookup makes, one before each of its four return statements (cache hit,
\* store answer of the miss path, fallback answer, fallback catch)
responseTimeSamples_noCatch(hit, q1ok, fb, fbok) ==
  (IF hit THEN 1 ELSE 0) + (IF q1ok THEN 1 ELSE 0) + (IF fbok THEN 1 ELSE 0)

responseTimeSamples(hit, q1ok, fb, fbok) ==
  (IF hit THEN 1 ELSE 0) + (IF q1ok THEN 1 ELSE 0) + (IF fbok THEN 1 ELSE 0)
    + (IF fb /\ ~fbok THEN 1 ELSE 0)

\* c: the code looked up; co: how the cache get goes; d1: how the store
\* query of the miss path goes; d2: how the store query of the fallback
\* goes; cs: how the repopulating cache set goes; ao: how incrementClicks goes
GetShortUrl(c, co, d1, d2, cs, ao) ==
  /\ nReads < MaxReads
  /\ nReads' = nReads + 1
  /\ LET rej == executeRejects(cb, now)
         b1 == executeAdmit(cb, now)
         hit == ~rej /\ co = "ok" /\ c \in DOMAIN cache
         miss == ~rej /\ co # "timeout" /\ ~hit
         found == c \in DOMAIN store
         q1ok == miss /\ d1 = "reach"
         fb == rej \/ (~rej /\ co = "timeout") \/ (miss /\ d1 # "reach")
         fbok == fb /\ d2 = "reach"
         lost == (miss /\ d1 = "timeout") \/ (fb /\ d2 = "timeout")
         path == IF hit THEN "hit"
                 ELSE IF q1ok THEN (IF found THEN "store" ELSE "absent")
                 ELSE IF fbok THEN (IF found THEN "fallback_store" ELSE "fallback_absent")
                 ELSE fallbackCatch
         url == IF hit THEN cache[c].full_url
                ELSE IF (q1ok \/ fbok) /\ found THEN store[c].full_url
                ELSE NoUrl
     IN /\ rej => co = "ok"
        /\ ~miss => d1 = "reach"
        /\ ~fb => d2 = "reach"
        /\ ~(q1ok /\ found) => cs = "ok"
        /\ ~hit => ao = "ok"
        /\ cb' = IF rej THEN cb
                 ELSE IF co = "timeout" THEN onFailure(b1, now) ELSE onSuccess(b1)
        /\ store' = IF q1ok \/ fbok THEN storeIncrement(store, c) ELSE store
        /\ pendingInc' = IF lost THEN pendingInc \cup {c} ELSE pendingInc
        /\ cache' = IF q1ok /\ repopulates(found)
                      THEN cacheSet(cache, cs, c, store[c].full_url)
                      ELSE cache
        /\ analytics' = IF hit /\ ao = "ok"
                          THEN [analytics EXCEPT ![c] = @ + 1]
                          ELSE analytics
        /\ last' = [NoStep EXCEPT !.kind = "read", !.code = c, !.url = url, !.path = path,
                                  !.adm = ~rej, !.co = IF rej THEN "none" ELSE co,
                                  !.cw = (q1ok /\ found /\ cs = "ok"),
                                  !.q = (IF miss THEN 1 ELSE 0) + (IF fb THEN 1 ELSE 0),
                                  !.rt = responseTimeSamples(hit, q1ok, fb, fbok)]
  /\ UNCHANGED <<now, inflight, ev, failRun, probeClean, probeSucc, pendingIns, call, bg,
                 nCreates, connVars, admVars>>

\* the breaker after ten lookups whose cache get timed out
OpenedBreaker ==
  [state |-> "OPEN", failureCount |-> failureThreshold, lastFailureTime |-> 0,
   successCount |-> 0]

\* the collection a process finds at startup: empty, or holding mappings
\* made earlier for another long URL
SeedUrl == "u0"
SeedStores ==
  {[c \in S |-> [full_url |-> SeedUrl, clicks |-> 0]] : S \in {{}, {"c1"}, Codes}}

InitRW ==
  /\ store \in SeedStores
  /\ cache = << >>
  /\ analytics = [c \in Codes |-> 0]
  /\ pendingIns = {}
  /\ pendingInc = {}
  /\ call = IdleCall
  /\ bg = << >>
  /\ last = NoStep
  /\ nCreates = 0
  /\ nReads = 0

\* the write path on its own: creates with generated and caller-chosen
\* codes, the background persistence tasks, and creates that lost their race
NextWrite ==
  \/ \E u \in Urls, k \in Codes \cup {NoCode} : CreateBegin(u, k)
  \/ \E o \in StoreModes : CreateCustom(o)
  \/ \E g \in Codes, o \in StoreModes, cs \in CacheSetModes : CreateAttempt(g, o, cs)
  \/ \E cs \in CacheSetModes : ControllerCaches(cs)
  \/ \E i \in 1..MaxCreates, o \in StoreModes : BgAttempt(i, o)
  \/ \E p \in pendingIns : PendingInsertLands(p)

\* one create followed from its request to its response and beyond: the
\* request is admitted, the service runs, the controller answers, the
\* client may disconnect at any moment, and the background task runs on
NextPersist ==
  \/ ConnArrive(Creator)
  \/ \E u \in Urls :
       reqStage[Creator] = "handling" /\ call.pc = "idle" /\ CreateBegin(u, NoCode)
  \/ \E g \in Codes, o \in StoreModes, cs \in CacheSetModes : CreateAttempt(g, o, cs)
  \/ \E cs \in CacheSetModes : ControllerCaches(cs)
  \/ call.pc = "responded" /\ EmitFinish(Creator)
  \/ EmitClose(Creator)
  \/ \E i \in DOMAIN bg, o \in StoreModes : BgAttempt(i, o)
  \/ \E p \in pendingIns : PendingInsertLands(p)

\* the read path on its own: lookups of any code, store queries that lost
\* their race, expiring cache entries and passing time
NextRead ==
  \/ \E c \in Codes, co \in CacheGetModes, d1 \in StoreModes, d2 \in StoreModes,
        cs \in CacheSetModes, ao \in CacheSetModes : GetShortUrl(c, co, d1, d2, cs, ao)
  \/ \E c \in Codes : PendingIncrementLands(c)
  \/ \E c \in Codes : CacheExpires(c)
  \/ RWTick

\* redirectFromShortUrl: 404 when getShortUrl returned null, else res.redirect(url.full_url)
redirectFromShortUrl(url) ==
  IF url = NoUrl THEN [status |-> 404, location |-> NoUrl]
  ELSE [status |-> 302, location |-> url]

\* store queries of the lookups followed by SpecRW are answered or refused
QueryModes == {"reach", "down"}

\* the caller of a create looks up the code it was given
LookupReturned(co, d1, d2, cs, ao) ==
  /\ nReads < MaxLookups
  /\ call.pc \in {"done", "responded"}
  /\ call.ret # NoCode
  /\ GetShortUrl(call.ret, co, d1, d2, cs, ao)

\* creates with generated codes, each followed by lookups of its code
NextRW ==
  \/ \E u \in Urls : CreateBegin(u, NoCode)
  \/ \E g \in Codes, o \in StoreModes, cs \in CacheSetModes : CreateAttempt(g, o, cs)
  \/ \E co \in CacheGetModes, d1 \in QueryModes, d2 \in QueryModes,
        cs \in CacheSetModes, ao \in CacheSetModes : LookupReturned(co, d1, d2, cs, ao)
  \/ RWTick

(***************************************************************************)
(* Concurrency / queue gate                                                *)
(***************************************************************************)
\* requests the gate model follows
NumQueueReqs == 4
\* MAX_CONCURRENT_REQUESTS is 1000 and MAX_QUEUE_SIZE is 5000 in the server; the
\* model runs the same comparisons against ceilings that NumQueueReqs
\* requests can reach
MAX_CONCURRENT_REQUESTS == 1
MAX_QUEUE_SIZE == 2

QReqs == 1..NumQueueReqs

\* processingRequests >= MAX_CONCURRENT_REQUESTS
atCapacity_above(p) == p > MAX_CONCURRENT_REQUESTS

atCapacity(p) == p >= MAX_CONCURRENT_REQUESTS

\* requestQueue.length >= MAX_QUEUE_SIZE
queueFull_above(q) == Len(q) > MAX_QUEUE_SIZE

queueFull(q) == Len(q) >= MAX_QUEUE_SIZE

\* isHealthCheck ? requestQueue.unshift(entry) : requestQueue.push(entry)
enqueue_back(q, r, h) == Append(q, r)

enqueue(q, r, h) == IF h THEN <<r>> \o q ELSE Append(q, r)

\* the part of the gate that processNextQueuedRequest reads and writes
Gate == [p |-> processingRequests, q |-> requestQueue, st |-> qStage, li |-> qListening]

\* processNextQueuedRequest(): the head of the queue is taken out, counted,
\* given its onDone listeners and passed on with next(); a response that
\* emitted 'close' while its request waited is passed on all the same
processNextQueuedRequest_keeps(g) == g

processNextQueuedRequest(g) ==
  IF g.q = << >> THEN g
  ELSE IF atCapacity(g.p) THEN g
  ELSE LET r == Head(g.q) IN
       [p |-> g.p + 1,
        q |-> Tail(g.q),
        st |-> [g.st EXCEPT ![r] = IF qClosed[r] THEN "late" ELSE "admitted"],
        li |-> [g.li EXCEPT ![r] = TRUE]]

\* onDone of request r: both listeners removed, processingRequests--,
\* processNextQueuedRequest()
onDone_noNext(g, r) == [g EXCEPT !.p = @ - 1, !.li = [g.li EXCEPT ![r] = FALSE]]

onDone(g, r) ==
  processNextQueuedRequest([g EXCEPT !.p = @ - 1, !.li = [g.li EXCEPT ![r] = FALSE]])

NoReply == [status |-> 0, retryAfter |-> 0, queueSize |-> 0]

InitQueue ==
  /\ processingRequests = 0
  /\ requestQueue = << >>
  /\ queueRejections = 0
  /\ qStage = [r \in QReqs |-> "new"]
  /\ qHealth = [r \in QReqs |-> FALSE]
  /\ qListening = [r \in QReqs |-> FALSE]
  /\ qFinished = [r \in QReqs |-> FALSE]
  /\ qClosed = [r \in QReqs |-> FALSE]
  /\ qOver = [r \in QReqs |-> FALSE]
  /\ qDecs = [r \in QReqs |-> 0]
  /\ qTicket = [r \in QReqs |-> 0]
  /\ qReply = [r \in QReqs |-> NoReply]

NextTicket == 1 + Cardinality({r \in QReqs : qTicket[r] > 0})

\* request r reaches the gate; h: its path is /health or /metrics
QArrive(r, h) ==
  /\ qStage[r] = "new"
  /\ \A r2 \in QReqs : r2 < r => qStage[r2] # "new"
  /\ qHealth' = [qHealth EXCEPT ![r] = h]
  /\ IF atCapacity(processingRequests)
       THEN IF queueFull(requestQueue)
              THEN /\ queueRejections' = queueRejections + 1
                   /\ qStage' = [qStage EXCEPT ![r] = "rejected"]
                   /\ qReply' = [qReply EXCEPT ![r] = [status |-> 503, retryAfter |-> 2,
                                                       queueSize |-> Len(requestQueue)]]
                   /\ UNCHANGED <<processingRequests, requestQueue, qListening, qTicket>>
              ELSE LET g == processNextQueuedRequest(
                              [Gate EXCEPT !.q = enqueue(requestQueue, r, h),
                                           !.st = [qStage EXCEPT ![r] = "queued"]])
                   IN /\ processingRequests' = g.p
                      /\ requestQueue' = g.q
                      /\ qStage' = g.st
                      /\ qListening' = g.li
                      /\ qTicket' = [qTicket EXCEPT ![r] = NextTicket]
                      /\ UNCHANGED <<queueRejections, qReply>>
       ELSE /\ processingRequests' = processingRequests + 1
            /\ qStage' = [qStage EXCEPT ![r] = "admitted"]
            /\ qListening' = [qListening EXCEPT ![r] = TRUE]
            /\ UNCHANGED <<requestQueue, queueRejections, qTicket, qReply>>
  /\ UNCHANGED <<qFinished, qClosed, qOver, qDecs, connVars, cbVars, rwVars, gVars, chVars, tbVars>>

\* what an event of res does to the gate: onDone if it is still registered
QEvent(r) ==
  LET g == IF qListening[r] THEN onDone(Gate, r) ELSE Gate IN
  /\ processingRequests' = g.p
  /\ requestQueue' = g.q
  /\ qStage' = g.st
  /\ qListening' = g.li
  /\ qDecs' = [qDecs EXCEPT ![r] = IF qListening[r] THEN @ + 1 ELSE @]

\* the response of r (the 503 of the gate or the answer of a handler) has
\* been written out: res emits 'finish'
QEmitFinish(r) ==
  /\ qStage[r] \in {"admitted", "rejected"}
  /\ ~qFinished[r]
  /\ ~qClosed[r]
  /\ qFinished' = [qFinished EXCEPT ![r] = TRUE]
  /\ qOver' = [qOver EXCEPT ![r] = TRUE]
  /\ QEvent(r)
  /\ UNCHANGED <<queueRejections, qHealth, qClosed, qTicket, qReply, connVars, cbVars, rwVars, gVars, chVars, tbVars>>

\* res emits 'close': after 'finish', or alone when the client disconnects
\* (while the request is handled, or while it still waits in the queue)
QEmitClose(r) ==
  /\ qStage[r] \in {"queued", "admitted", "rejected"}
  /\ ~qClosed[r]
  /\ qClosed' = [qClosed EXCEPT ![r] = TRUE]
  /\ qOver' = [qOver EXCEPT ![r] = (qStage[r] # "queued")]
  /\ QEvent(r)
  /\ UNCHANGED <<queueRejections, qHealth, qFinished, qTicket, qReply, connVars, cbVars, rwVars, gVars, chVars, tbVars>>

\* the handler of a request that was passed on after its connection had
\* closed ends its response: the write goes to a destroyed socket, and
\* 'finish' is emitted or not (emits)
QLateResponse(r, emits) ==
  /\ qStage[r] = "late"
  /\ ~qOver[r]
  /\ qOver' = [qOver EXCEPT ![r] = TRUE]
  /\ qFinished' = [qFinished EXCEPT ![r] = emits]
  /\ IF emits
       THEN QEvent(r)
       ELSE UNCHANGED <<processingRequests, requestQueue, qStage, qListening, qDecs>>
  /\ UNCHANGED <<queueRejections, qHealth, qClosed, qTicket, qReply, connVars, cbVars, rwVars, gVars, chVars, tbVars>>

\* the server goes on receiving requests: a request whose response has been
\* finished is over for the gate (onDone has removed its listeners, so the
\* 'close' that follows 'finish' reaches nothing), and its place is taken by
\* a request that has not arrived yet
QRecycle(r) ==
  /\ qStage[r] \in {"admitted", "rejected"}
  /\ qFinished[r]
  /\ ~qListening[r]
  /\ qStage' = [qStage EXCEPT ![r] = "new"]
  /\ qHealth' = [qHealth EXCEPT ![r] = FALSE]
  /\ qFinished' = [qFinished EXCEPT ![r] = FALSE]
  /\ qClosed' = [qClosed EXCEPT ![r] = FALSE]
  /\ qOver' = [qOver EXCEPT ![r] = FALSE]
  /\ qDecs' = [qDecs EXCEPT ![r] = 0]
  /\ qTicket' = [qTicket EXCEPT ![r] = 0]
  /\ qReply' = [qReply EXCEPT ![r] = NoReply]
  /\ UNCHANGED <<processingRequests, requestQueue, queueRejections, qListening,
                 connVars, cbVars, rwVars, gVars, chVars, tbVars>>

\* the gate under a stream of requests whose clients stay connected until
\* they have their response: arrivals, completed responses and further
\* arrivals.  Requests arrive while the queue has room, so that the
\* rejection counter does not grow without bound.
NextQueueStream ==
  \/ \E r \in QReqs, h \in BOOLEAN :
       ~queueFull(requestQueue) /\ QArrive(r, h)
  \/ \E r \in QReqs : QEmitFinish(r)
  \/ \E r \in QReqs : QRecycle(r)

NextQueue ==
  \/ \E r \in QReqs, h \in BOOLEAN : QArrive(r, h)
  \/ \E r \in QReqs : QEmitFinish(r)
  \/ \E r \in QReqs : QEmitClose(r)
  \/ \E r \in QReqs, emits \in BOOLEAN : QLateResponse(r, emits)

(***************************************************************************)
(* Global rate limiter (server entry file)                                 *)
(***************************************************************************)
GLOBAL_RATE_LIMIT == 180
GLOBAL_WINDOW_MS == 1000
GTickMs == 500
GMaxNow == 2500

\* Math.ceil(a / b) for b > 0
CeilDiv(a, b) == -((-a) \div b)

windowElapsed_late(t, start) == t - start > GLOBAL_WINDOW_MS

\* now - globalWindowStart >= GLOBAL_WINDOW_MS
windowElapsed(t, start) == t - start >= GLOBAL_WINDOW_MS

\* let globalRequestCount = 0; let globalWindowStart = Date.now()
InitGlobal ==
  /\ globalRequestCount = 0
  /\ globalWindowStart = 0
  /\ gEv = "none"
  /\ gRetryAfter = 0

\* one request runs through the middleware
GlobalRequest ==
  LET reset == windowElapsed(now, globalWindowStart)
      count == IF reset THEN 0 ELSE globalRequestCount
      start == IF reset THEN now ELSE globalWindowStart
  IN /\ globalWindowStart' = start
     /\ IF count >= GLOBAL_RATE_LIMIT
          THEN /\ globalRequestCount' = count
               /\ gEv' = "reject"
               /\ gRetryAfter' = CeilDiv(start + GLOBAL_WINDOW_MS - now, 1000)
          ELSE /\ globalRequestCount' = count + 1
               /\ gEv' = "pass"
               /\ gRetryAfter' = 0
     /\ UNCHANGED <<connVars, cbVars, rwVars, qVars, chVars, tbVars>>

GTick ==
  /\ now + GTickMs <= GMaxNow
  /\ now' = now + GTickMs
  /\ gEv' = "tick"
  /\ UNCHANGED <<globalRequestCount, globalWindowStart, gRetryAfter>>
  /\ UNCHANGED <<cb, inflight, ev, failRun, probeClean, probeSucc>>
  /\ UNCHANGED <<connVars, rwVars, qVars, chVars, tbVars>>

NextGlobal == GlobalRequest \/ GTick

(***************************************************************************)
(* Order of the admission middlewares (app.use calls of the server entry   *)
(* file)                                                                   *)
(***************************************************************************)
NumChainReqs == 3
ChainReqs == 1..NumChainReqs

ChainOrder_bucketLast == <<"connection", "globalRate", "queue", "tokenBucket">>

\* app.use(rateLimiter(...)), then the global rate limiter, the connection
\* limiter and the queue gate
ChainOrder == <<"tokenBucket", "globalRate", "connection", "queue">>

InitChain ==
  /\ chTrace = [r \in ChainReqs |-> << >>]
  /\ chRejected = [r \in ChainReqs |-> "none"]

\* the next middleware of the chain runs for request r; it calls next()
\* (passes) or answers the request itself
ChainStep(r, passes) ==
  /\ chRejected[r] = "none"
  /\ Len(chTrace[r]) < Len(ChainOrder)
  /\ LET stage == ChainOrder[Len(chTrace[r]) + 1]
     IN /\ chTrace' = [chTrace EXCEPT ![r] = Append(@, stage)]
        /\ chRejected' = [chRejected EXCEPT ![r] = IF passes THEN "none" ELSE stage]
  /\ UNCHANGED <<connVars, cbVars, rwVars, qVars, gVars, tbVars>>

NextChain == \E r \in ChainReqs, passes \in BOOLEAN : ChainStep(r, passes)

(***************************************************************************)
(* Per-client token bucket (urlCacheService.checkRateLimit), as the rate   *)
(* limiter middleware of the server calls it.  Tokens are counted in       *)
(* thousandths so that the refill of a whole number of milliseconds is     *)
(* exact.                                                                  *)
(***************************************************************************)
\* rateLimiter({ max: 150, burstCapacity: 300 })
sustainedRps == 150
burstCapacity == 300
Milli == 1000
capacity == (sustainedRps + burstCapacity) * Milli
TbTickMs == 20
TbMaxNow == 60
MaxIdles == 1

\* ms after which an empty bucket is full again: capacity / sustainedRps seconds
fullRefillMs == capacity \div sustainedRps

NoBucket == [held |-> FALSE, tokens |-> 0, ts |-> 0]

elapsedMs_zero(state, t) == 0

\* Math.max(0, now - state.ts), in ms
elapsedMs(state, t) == IF t - state.ts > 0 THEN t - state.ts ELSE 0

refill_uncapped(state, t) == state.tokens + elapsedMs(state, t) * sustainedRps

\* Math.min(sustainedRps + burstCapacity, state.tokens + elapsedSec * sustainedRps)
refill(state, t) ==
  LET filled == state.tokens + elapsedMs(state, t) * sustainedRps
  IN IF filled < capacity THEN filled ELSE capacity

\* const state = await cacheService.get(key) || { tokens: sustainedRps + burstCapacity, ts: now }
loadState_emptyOnMiss(getOk, stored, t) ==
  IF getOk /\ stored.held THEN stored ELSE [held |-> TRUE, tokens |-> 0, ts |-> t]

loadState(getOk, stored, t) ==
  IF getOk /\ stored.held THEN stored ELSE [held |-> TRUE, tokens |-> capacity, ts |-> t]

\* if (tokens >= 1) { tokens -= 1; allowed = true }
consume_always(tokens) == tokens - Milli

consume(tokens) == IF tokens >= Milli THEN tokens - Milli ELSE tokens

\* rateLimiter: if (!rateLimit.allowed) return res.status(429).json(...); next()
rateLimiterAnswer(allowed) == IF allowed THEN "next" ELSE "429"

NoCheck == [kind |-> "none", got |-> FALSE, stored |-> FALSE, seen |-> 0, answer |-> "none"]

NumTbCallers == 2
MaxTbChecks == 4
TbCallers == 1..NumTbCallers

IdleCheck == [pc |-> "idle", tokens |-> 0, ts |-> 0, at |-> 0]

InitBucket ==
  /\ tbState = NoBucket
  /\ tbReply = "none"
  /\ tbLast = NoCheck
  /\ tbCall = [c \in TbCallers |-> IdleCheck]
  /\ tbAllowed = 0

\* one call of checkRateLimit; getOk: cacheService.get returns the stored
\* value (otherwise null), setOk: cacheService.set stores the new value
checkRateLimit(getOk, setOk) ==
  LET state == loadState(getOk, tbState, now)
      tokens == refill(state, now)
      allowed == tokens >= Milli
      left == consume(tokens)
  IN /\ tbState' = IF setOk THEN [held |-> TRUE, tokens |-> left, ts |-> now] ELSE tbState
     /\ tbReply' = IF allowed THEN "allowed" ELSE "denied"
     /\ tbLast' = [kind |-> "check", got |-> getOk, stored |-> setOk, seen |-> tokens,
                   answer |-> rateLimiterAnswer(allowed)]
     /\ UNCHANGED <<tbCall, tbAllowed>>
     /\ UNCHANGED <<connVars, cbVars, rwVars, qVars, gVars, chVars>>

\* the key tb:<ip> expires (TTL) or is evicted
TbExpire ==
  /\ tbState.held
  /\ tbState' = NoBucket
  /\ tbLast' = [NoCheck EXCEPT !.kind = "expire"]
  /\ UNCHANGED <<tbReply, tbCall, tbAllowed>>
  /\ UNCHANGED <<connVars, cbVars, rwVars, qVars, gVars, chVars>>

\* time passes: a short while, or the time an empty bucket needs to fill
TbTick ==
  /\ \/ /\ (now % fullRefillMs) + TbTickMs <= TbMaxNow
        /\ now' = now + TbTickMs
     \/ /\ now + fullRefillMs <= MaxIdles * fullRefillMs + TbMaxNow
        /\ now' = now + fullRefillMs
  /\ tbLast' = [NoCheck EXCEPT !.kind = "tick"]
  /\ UNCHANGED <<tbState, tbReply, tbCall, tbAllowed>>
  /\ UNCHANGED <<cb, inflight, ev, failRun, probeClean, probeSucc>>
  /\ UNCHANGED <<connVars, rwVars, qVars, gVars, chVars>>

NextBucket ==
  \/ \E getOk \in BOOLEAN, setOk \in BOOLEAN : checkRateLimit(getOk, setOk)
  \/ TbExpire
  \/ TbTick

\* checkRateLimit as the event loop runs it: the call is suspended at
\* await cacheService.get and at await cacheService.set, and calls made for
\* other requests of the same client run in between.  The cache answers here.

\* const now = Date.now(); const state = await cacheService.get(key) || {...}
TbRead(c) ==
  /\ tbCall[c].pc = "idle"
  /\ tbAllowed + Cardinality({k \in TbCallers : tbCall[k].pc = "loaded"}) < MaxTbChecks
  /\ LET state == loadState(TRUE, tbState, now)
     IN tbCall' = [tbCall EXCEPT ![c] = [pc |-> "loaded", tokens |-> state.tokens,
                                         ts |-> state.ts, at |-> now]]
  /\ tbLast' = [NoCheck EXCEPT !.kind = "read"]
  /\ UNCHANGED <<tbState, tbReply, tbAllowed>>
  /\ UNCHANGED <<connVars, cbVars, rwVars, qVars, gVars, chVars>>

\* the rest of the call: refill, consume, await cacheService.set(key, newState, 60)
TbWrite(c) ==
  /\ tbCall[c].pc = "loaded"
  /\ LET tokens == refill(tbCall[c], tbCall[c].at)
         allowed == tokens >= Milli
     IN /\ tbState' = [held |-> TRUE, tokens |-> consume(tokens), ts |-> tbCall[c].at]
        /\ tbReply' = IF allowed THEN "allowed" ELSE "denied"
        /\ tbAllowed' = IF allowed THEN tbAllowed + 1 ELSE tbAllowed
        /\ tbLast' = [kind |-> "check", got |-> TRUE, stored |-> TRUE, seen |-> tokens,
                      answer |-> rateLimiterAnswer(allowed)]
  /\ tbCall' = [tbCall EXCEPT ![c] = IdleCheck]
  /\ UNCHANGED <<connVars, cbVars, rwVars, qVars, gVars, chVars>>

NextBucketRace ==
  \/ \E c \in TbCallers : TbRead(c)
  \/ \E c \in TbCallers : TbWrite(c)
  \/ TbTick

(***************************************************************************)
(* Specifications                                                          *)
(***************************************************************************)
InitAdm == InitQueue /\ InitGlobal /\ InitChain /\ InitBucket

Init == InitConn /\ InitCB /\ InitRW /\ InitAdm

SpecConn == Init /\ [][NextConn]_vars

SpecCB == Init /\ [][NextCB]_vars

SpecWrite == Init /\ [][NextWrite]_vars

\* the admission middlewares never touch the collection: one seed is enough
InitAdmission == Init /\ DOMAIN store = {}

SpecQueue == InitAdmission /\ [][NextQueue]_vars

\* every request that has been passed on is answered; arrivals are up to
\* the clients
SpecQueueStream ==
  /\ InitAdmission
  /\ [][NextQueueStream]_vars
  /\ \A r \in QReqs : WF_vars(QEmitFinish(r))

SpecGlobal == InitAdmission /\ [][NextGlobal]_vars

SpecChain == InitAdmission /\ [][NextChain]_vars

SpecBucket == InitAdmission /\ [][NextBucket]_vars

SpecBucketRace == InitAdmission /\ [][NextBucketRace]_vars

SpecPersist == Init /\ [][NextPersist]_vars

\* the lookups start with a fresh breaker or with one that cache timeouts
\* have already opened
InitSpecRW ==
  /\ InitConn
  /\ InitRW
  /\ InitAdm
  /\ now = 0 /\ inflight = 0 /\ ev = "none" /\ failRun = 0
  /\ probeClean = FALSE /\ probeSucc = 0
  /\ cb \in {CircuitBreaker, OpenedBreaker}

SpecRead == InitSpecRW /\ [][NextRead]_vars

SpecRW == InitSpecRW /\ [][NextRW]_vars

(***************************************************************************)
(* C1: activeConnections is decremented exactly once per counted request,  *)
(* is never negative, and is 0 once every request has completed.           *)
(***************************************************************************)
AllCompleted == \A r \in Reqs : closed[r]

C1_ConnectionCountSound ==
  /\ activeConnections >= 0
  /\ \A r \in Reqs : decs[r] <= 1
  /\ AllCompleted => activeConnections = 0

(***************************************************************************)
(* C2: a call that fails while the breaker is HALF_OPEN leaves it OPEN     *)
(* with lastFailureTime set to the time of the failure.                    *)
(***************************************************************************)
C2_HalfOpenFailureReopens ==
  [][(ev' = "failure" /\ cb.state = "HALF_OPEN")
       => (cb'.state = "OPEN" /\ cb'.lastFailureTime = now)]_vars

(***************************************************************************)
(* C3: failureThreshold consecutive failed calls leave the breaker OPEN;   *)
(* a call made while it is OPEN and the recovery timeout has not elapsed   *)
(* is refused without invoking the operation and changes nothing.          *)
(***************************************************************************)
C3_OpensAndRejects ==
  [][/\ (ev' = "failure" /\ failRun' >= failureThreshold) => cb'.state = "OPEN"
     /\ (ev' \in {"invoked", "rejected"} /\ cb.state = "OPEN"
           /\ now - cb.lastFailureTime <= recoveryTimeout)
          => (ev' = "rejected" /\ cb' = cb /\ inflight' = inflight)]_vars

C3_Witness ==
  /\ ev = "rejected"
  /\ cb.state = "OPEN"
  /\ failRun = failureThreshold
  /\ cb.failureCount = failureThreshold

(***************************************************************************)
(* C4: once the recovery timeout has elapsed the next call makes the       *)
(* breaker HALF_OPEN with successCount 0 and runs the operation; from      *)
(* there the successful call that brings the successes recorded in         *)
(* HALF_OPEN to minSuccessCount closes the breaker (so minSuccessCount     *)
(* successful calls in a row do), and fewer leave it HALF_OPEN.            *)
(***************************************************************************)
C4_ProbeAndClose ==
  [][/\ (ev' \in {"invoked", "rejected"} /\ cb.state = "OPEN"
           /\ now - cb.lastFailureTime > recoveryTimeout)
          => (ev' = "invoked" /\ cb'.state = "HALF_OPEN" /\ cb'.successCount = 0
                /\ inflight' = inflight + 1)
     /\ (ev' = "success" /\ cb.state = "HALF_OPEN")
          => (cb'.state = IF probeSucc' >= minSuccessCount THEN "CLOSED" ELSE "HALF_OPEN")]_vars

C4_Witness ==
  /\ ev = "success"
  /\ cb.state = "CLOSED"
  /\ probeClean
  /\ probeSucc = minSuccessCount

(***************************************************************************)
(* C5: when every insert of a create with generated codes, up to the       *)
(* attempt bound, was answered 'already exists', the create fails with the *)
(* exhaustion error and returns no code.                                   *)
(***************************************************************************)
Returned == call.pc \in {"done", "responded"}

C5_ExhaustionFails ==
  (/\ Returned
   /\ call.custom = NoCode
   /\ call.inserts = maxCollisions + 1
   /\ call.colls = call.inserts)
    => (call.result = "exhausted" /\ call.ret = NoCode)

(***************************************************************************)
(* C6: a create with generated codes makes one insert per generated code   *)
(* and never more than maxCollisions + 1 of them; when the insert after k  *)
(* collisions is accepted it returns that code after exactly k + 1         *)
(* inserts, and it gives up on collisions only after maxCollisions + 1.    *)
(***************************************************************************)
C6_CollisionRetry ==
  call.custom = NoCode =>
    /\ call.inserts <= maxCollisions + 1
    /\ call.gens = call.inserts
    /\ (Returned /\ call.out = "ok") =>
         /\ call.result = "ok"
         /\ call.ret = call.code
         /\ call.inserts = call.colls + 1
         /\ call.ret \in DOMAIN store
         /\ store[call.ret].full_url = call.url
    /\ (Returned /\ call.out = "exists") => call.colls = maxCollisions + 1

C6_Witness ==
  /\ Returned
  /\ call.custom = NoCode
  /\ call.result = "ok"
  /\ call.colls = maxCollisions
  /\ call.inserts = maxCollisions + 1
  /\ store[call.ret].full_url = call.url

(***************************************************************************)
(* C7 as claimed: a create with generated codes whose insert does not      *)
(* resolve within the race timeout returns the generated code with the     *)
(* mapping written to the cache, and the lookup of that code that follows  *)
(* immediately returns the long URL from the cache.                        *)
(***************************************************************************)
DegradedOnTimeout(step) ==
  step.kind = "create" /\ ~step.custom /\ step.out = "timeout"

InsertRunning(code, url) == [code |-> code, url |-> url] \in pendingIns

Stored(code, url) == code \in DOMAIN store /\ store[code].full_url = url

C8_EventuallyStored ==
  \A i \in DOMAIN bg :
    (/\ bg[i].st \in {"done", "failed"}
     /\ bg[i].out # "exists"
     /\ ~InsertRunning(bg[i].code, bg[i].url))
      => Stored(bg[i].code, bg[i].url)

(***************************************************************************)
(* C8 as amended: a returned code is in the store mapped to its long URL   *)
(* once its synchronous insert or one of its background inserts was        *)
(* accepted; background persistence makes at most maxRetries inserts and   *)
(* gives up only after maxRetries failures or on 'already exists'.         *)
(***************************************************************************)
C8_BoundedPersistence ==
  /\ (Returned /\ call.result = "ok") => Stored(call.ret, call.url)
  /\ \A i \in DOMAIN bg :
       /\ bg[i].retryCount <= maxRetries
       /\ bg[i].st = "scheduled" => bg[i].retryCount < maxRetries
       /\ bg[i].st = "done" => Stored(bg[i].code, bg[i].url)
       /\ bg[i].st = "failed" => (bg[i].retryCount = maxRetries \/ bg[i].out = "exists")

C8_Witness ==
  \E i \in DOMAIN bg :
    /\ bg[i].st = "done"
    /\ bg[i].retryCount = maxRetries - 1
    /\ call.result = "degraded"
    /\ call.ret = bg[i].code
    /\ Stored(bg[i].code, bg[i].url)

(***************************************************************************)
(* C9: a create with a caller-chosen code makes exactly one insert, with   *)
(* that code: accepted, it returns the code; answered 'already exists', it *)
(* fails with the conflict error; timed out or failed otherwise, it fails  *)
(* with that error; it neither writes the cache nor schedules background   *)
(* persistence.                                                            *)
(***************************************************************************)
C9_CustomSingleAttempt ==
  (call.custom # NoCode /\ Returned) =>
    /\ call.inserts = 1
    /\ call.gens = 0
    /\ call.code = call.custom
    /\ call.out = "ok" => (call.result = "ok" /\ call.ret = call.custom)
    /\ call.out = "exists" => (call.result = "conflict" /\ call.ret = NoCode)
    /\ call.out \in {"timeout", "down"} => (call.result = "error" /\ call.ret = NoCode)
    /\ call.sets = 0
    /\ call.bgs = 0
    /\ (nCreates = 1 /\ call.pc = "done") => (cache = << >> /\ bg = << >>)

C9_Witness ==
  /\ call.custom # NoCode
  /\ call.pc = "done"
  /\ call.out = "timeout"
  /\ call.result = "error"
  /\ InsertRunning(call.custom, call.url)
  /\ cache = << >>
  /\ bg = << >>

(***************************************************************************)
(* C10 as claimed: a lookup that misses the cache and finds the code in    *)
(* the store returns the store's mapping, raises the store's click count   *)
(* of the code by exactly 1 and leaves the mapping in the cache, so that   *)
(* the lookup of the same code that follows immediately is a cache hit     *)
(* and queries no store.                                                   *)
(***************************************************************************)
ServedFromStore(step) == step.kind = "read" /\ step.path = "store"

C10_MissRepopulates ==
  [][/\ ServedFromStore(last') =>
          /\ last'.url = store[last'.code].full_url
          /\ store'[last'.code].clicks = store[last'.code].clicks + 1
          /\ last'.code \in DOMAIN cache'
          /\ cache'[last'.code].full_url = store[last'.code].full_url
     /\ (ServedFromStore(last) /\ last'.kind = "read" /\ last'.code = last.code) =>
          (last'.path = "hit" /\ last'.q = 0)]_vars

(***************************************************************************)
(* C10 as amended: such a lookup returns the store's mapping and raises    *)
(* the click count by exactly 1; when its repopulating cache write         *)
(* succeeded the cache holds the mapping, and the lookup of the same code  *)
(* that follows immediately is a cache hit and queries no store, provided  *)
(* the cache answers its read.                                             *)
(***************************************************************************)
C10_MissRepopulatesIfCached ==
  [][/\ ServedFromStore(last') =>
          /\ last'.url = store[last'.code].full_url
          /\ store'[last'.code].clicks = store[last'.code].clicks + 1
          /\ last'.q = 1
          /\ last'.cw => /\ last'.code \in DOMAIN cache'
                         /\ cache'[last'.code].full_url = store[last'.code].full_url
     /\ (/\ ServedFromStore(last) /\ last.cw
         /\ last'.kind = "read" /\ last'.code = last.code /\ last'.co = "ok") =>
          (last'.path = "hit" /\ last'.url = last.url /\ last'.q = 0
             /\ store' = store)]_vars

C10_Witness ==
  /\ nCreates = 0
  /\ nReads = 2
  /\ last.kind = "read"
  /\ last.path = "hit"
  /\ last.q = 0
  /\ last.code \in DOMAIN store
  /\ store[last.code].clicks = 1
  /\ last.url = store[last.code].full_url

(***************************************************************************)
(* C11 as claimed: a lookup never raises an error, whatever the cache, the *)
(* breaker, the analytics, the repopulation and the store do: it returns a *)
(* mapping or 'not found'; when a store query of the lookup fails or times *)
(* out it returns 'not found'.                                             *)
(***************************************************************************)
ReadReturns(step) ==
  /\ step.path \in {"hit", "store", "absent", "fallback_store", "fallback_absent",
                    "fallback_failed"}
  /\ step.url # NoUrl <=> step.path \in {"hit", "store", "fallback_store"}

\* a store query of the lookup failed: the fallback was entered from the
\* miss path (two queries) or the fallback query itself failed
StoreQueryFailed(step) == step.q = 2 \/ step.path = "fallback_failed"

C12_GateBounded ==
  /\ processingRequests <= MAX_CONCURRENT_REQUESTS
  /\ Len(requestQueue) <= MAX_QUEUE_SIZE

C12_Witness ==
  /\ processingRequests = MAX_CONCURRENT_REQUESTS
  /\ Len(requestQueue) = MAX_QUEUE_SIZE
  /\ \E r \in QReqs : qStage[r] = "rejected"

(***************************************************************************)
(* C13: a request that arrives while processingRequests is at its ceiling  *)
(* and the queue is full is answered 503 with the queue depth, is never    *)
(* passed to a handler, and leaves processingRequests and the queue as     *)
(* they were.                                                              *)
(***************************************************************************)
QArrives(r) == qStage[r] = "new" /\ qStage'[r] # "new"

C13_FullQueueRejects ==
  [][\A r \in QReqs :
       /\ (/\ QArrives(r)
           /\ processingRequests >= MAX_CONCURRENT_REQUESTS
           /\ Len(requestQueue) >= MAX_QUEUE_SIZE) =>
            /\ qStage'[r] = "rejected"
            /\ qReply'[r].status = 503
            /\ qReply'[r].queueSize = Len(requestQueue)
            /\ qReply'[r].retryAfter > 0
            /\ ~qListening'[r]
            /\ processingRequests' = processingRequests
            /\ requestQueue' = requestQueue
       /\ qStage[r] = "rejected" => (qStage'[r] = "rejected" /\ ~qListening'[r])]_vars

C13_Witness ==
  \E r \in QReqs :
    /\ qStage[r] = "rejected" /\ qHealth[r]
    /\ qReply[r].status = 503
    /\ qReply[r].queueSize = MAX_QUEUE_SIZE
    /\ processingRequests = MAX_CONCURRENT_REQUESTS
    /\ Len(requestQueue) = MAX_QUEUE_SIZE
    /\ qClosed[r]

(***************************************************************************)
(* C14: requests leave the queue from its head only; the waiting requests  *)
(* that are not /health or /metrics stand in the order they were queued,   *)
(* and a /health or /metrics request stands before every request that was  *)
(* queued before it.                                                       *)
(***************************************************************************)
QueueOrdered(q, health, ticket) ==
  \A i \in 1..Len(q), j \in 1..Len(q) :
    i < j => IF health[q[j]] THEN ticket[q[i]] > ticket[q[j]]
             ELSE (~health[q[i]] => ticket[q[i]] < ticket[q[j]])

C14_QueueOrder ==
  [][/\ QueueOrdered(requestQueue', qHealth', qTicket')
     /\ \A r \in QReqs :
          (qStage[r] = "queued" /\ qStage'[r] # "queued") =>
            /\ r = Head(requestQueue)
            /\ requestQueue' = Tail(requestQueue)
            /\ qStage'[r] \in {"admitted", "late"}]_vars

C14_Witness ==
  \E h \in QReqs, r \in QReqs :
    /\ qHealth[h] /\ ~qHealth[r]
    /\ 0 < qTicket[r] /\ qTicket[r] < qTicket[h]
    /\ qStage[h] = "admitted"
    /\ qStage[r] = "queued"

(***************************************************************************)
(* C15: when the onDone of a request runs while the queue is non-empty,    *)
(* the head of the queue is admitted in the same step: processingRequests  *)
(* is unchanged and the queue is one entry shorter; with an empty queue    *)
(* processingRequests goes down by one.                                    *)
(***************************************************************************)
C15_CompletionAdmitsHead ==
  [][\A r \in QReqs :
       (qDecs'[r] = qDecs[r] + 1) =>
         IF requestQueue # << >>
           THEN /\ processingRequests' = processingRequests
                /\ requestQueue' = Tail(requestQueue)
                /\ qStage'[Head(requestQueue)] \in {"admitted", "late"}
                /\ qListening'[Head(requestQueue)]
           ELSE /\ processingRequests' = processingRequests - 1
                /\ requestQueue' = << >>]_vars

C15_Witness ==
  \E r \in QReqs, r2 \in QReqs :
    /\ qDecs[r] = 1
    /\ qTicket[r2] > 0
    /\ qStage[r2] = "admitted"
    /\ qListening[r2]
    /\ processingRequests = MAX_CONCURRENT_REQUESTS
    /\ Len(requestQueue) = 1

(***************************************************************************)
(* C16: every request passed on by the gate, directly or from the queue,   *)
(* decrements processingRequests exactly once when its response ends;      *)
(* processingRequests is never negative and is 0 once every request that   *)
(* was passed on has terminated.                                           *)
(***************************************************************************)
QPassed(r) == qStage[r] \in {"admitted", "late"}

\* the connection of r is closed and its handler, if it was started after
\* that, has ended its response
QTerminated(r) == qClosed[r] /\ (qStage[r] = "late" => qOver[r])

C16_OneDecrementPerAdmitted ==
  /\ processingRequests >= 0
  /\ \A r \in QReqs : qDecs[r] <= 1
  /\ \A r \in QReqs : (QPassed(r) /\ QTerminated(r)) => qDecs[r] = 1
  /\ (\A r \in QReqs : QPassed(r) => QTerminated(r)) => processingRequests = 0

(***************************************************************************)
(* C17: a request whose client disconnects while it waits in the queue     *)
(* leaks no capacity: once every request has terminated,                   *)
(* processingRequests is 0 and the queue is empty.                         *)
(***************************************************************************)
C17_NoLeakOnQueuedDisconnect ==
  (\A r \in QReqs : qStage[r] = "new" \/ QTerminated(r))
    => (processingRequests = 0 /\ requestQueue = << >>)

(***************************************************************************)
(* C18: at most GLOBAL_RATE_LIMIT requests pass in one window; a request   *)
(* that arrives in the window with the counter at its ceiling is answered  *)
(* 429 with a retry-after hint and leaves the counter unchanged; a request *)
(* that arrives once the window has elapsed resets the counter and the     *)
(* window start, and passes.                                               *)
(***************************************************************************)
GlobalRequestStep == gEv' \in {"pass", "reject"}

C18_GlobalWindow ==
  [][/\ globalRequestCount' <= GLOBAL_RATE_LIMIT
     /\ GlobalRequestStep =>
          IF now - globalWindowStart < GLOBAL_WINDOW_MS
            THEN /\ globalWindowStart' = globalWindowStart
                 /\ IF globalRequestCount >= GLOBAL_RATE_LIMIT
                      THEN /\ gEv' = "reject"
                           /\ gRetryAfter' >= 1
                           /\ globalRequestCount' = globalRequestCount
                      ELSE /\ gEv' = "pass"
                           /\ globalRequestCount' = globalRequestCount + 1
            ELSE /\ gEv' = "pass"
                 /\ globalWindowStart' = now
                 /\ globalRequestCount' = 1]_vars

C18_Witness ==
  /\ gEv = "reject"
  /\ gRetryAfter = 1
  /\ globalRequestCount = GLOBAL_RATE_LIMIT
  /\ globalWindowStart > 0
  /\ now - globalWindowStart < GLOBAL_WINDOW_MS

(***************************************************************************)
(* C19: the admission middlewares run in the order connection ceiling,     *)
(* global rate ceiling, queue gate, token bucket, and the token bucket     *)
(* never runs for a request that one of the other three answers.           *)
(***************************************************************************)
Ran(r, stage) == \E i \in 1..Len(chTrace[r]) : chTrace[r][i] = stage

\* stage a has run for r before stage b, when b has run for r at all
RunsBefore(r, a, b) ==
  \A j \in 1..Len(chTrace[r]) :
    chTrace[r][j] = b => \E i \in 1..(j - 1) : chTrace[r][i] = a

C19_BucketRunsLast ==
  \A r \in ChainReqs :
    /\ RunsBefore(r, "connection", "globalRate")
    /\ RunsBefore(r, "globalRate", "queue")
    /\ RunsBefore(r, "queue", "tokenBucket")
    /\ chRejected[r] \in {"connection", "globalRate", "queue"} => ~Ran(r, "tokenBucket")

(***************************************************************************)
(* C19 (as the code has it): the order is token bucket, global rate        *)
(* ceiling, connection ceiling, queue gate; the token bucket runs first    *)
(* for every request, and a request answered by one middleware reaches no  *)
(* later one.                                                              *)
(***************************************************************************)
C19_BucketRunsFirst ==
  \A r \in ChainReqs :
    /\ chTrace[r] # << >> => chTrace[r][1] = "tokenBucket"
    /\ RunsBefore(r, "tokenBucket", "globalRate")
    /\ RunsBefore(r, "globalRate", "connection")
    /\ RunsBefore(r, "connection", "queue")
    /\ \A i \in 1..Len(chTrace[r]), j \in 1..Len(chTrace[r]) :
         chTrace[r][i] = chTrace[r][j] => i = j
    /\ chRejected[r] # "none" => chTrace[r][Len(chTrace[r])] = chRejected[r]

C19_Witness ==
  \E r \in ChainReqs, r2 \in ChainReqs :
    /\ chRejected[r] = "queue"
    /\ Ran(r, "tokenBucket")
    /\ chRejected[r2] = "tokenBucket"
    /\ Len(chTrace[r2]) = 1

(***************************************************************************)
(* C20: every bucket state that checkRateLimit stores has                  *)
(* 0 <= tokens <= sustainedRps + burstCapacity.                            *)
(***************************************************************************)
C20_TokensInRange ==
  tbState.held =>
    /\ 0 <= tbState.tokens
    /\ tbState.tokens <= (sustainedRps + burstCapacity) * Milli

C20_Witness ==
  /\ tbState.held
  /\ tbState.tokens < Milli
  /\ tbReply = "denied"
  /\ now > 0

(***************************************************************************)
(* C21: a check refills the bucket it loaded by elapsed time x             *)
(* sustainedRps, capped at the capacity; it allows the request exactly     *)
(* when the refilled bucket holds at least one token, takes one token on   *)
(* allow and none on deny, and stores {tokens, ts: now} in both cases; the *)
(* middleware answers a denied request 429 and passes on an allowed one.   *)
(***************************************************************************)
TbCheckStep == tbLast'.kind = "check"

\* what the check finds under the key: the stored value, or a full bucket
TbLoaded ==
  IF tbLast'.got /\ tbState.held
    THEN [tokens |-> tbState.tokens, ts |-> tbState.ts]
    ELSE [tokens |-> (sustainedRps + burstCapacity) * Milli, ts |-> now]

TbRefilled ==
  LET el == IF now > TbLoaded.ts THEN now - TbLoaded.ts ELSE 0
      raw == TbLoaded.tokens + el * sustainedRps
  IN IF raw > (sustainedRps + burstCapacity) * Milli
       THEN (sustainedRps + burstCapacity) * Milli ELSE raw

C21_CheckComputesBucket ==
  [][TbCheckStep =>
       /\ tbLast'.seen = TbRefilled
       /\ tbLast'.answer = IF TbRefilled >= Milli THEN "next" ELSE "429"
       /\ tbReply' = IF TbRefilled >= Milli THEN "allowed" ELSE "denied"
       /\ tbLast'.stored =>
            tbState' = [held |-> TRUE,
                        tokens |-> IF TbRefilled >= Milli THEN TbRefilled - Milli
                                   ELSE TbRefilled,
                        ts |-> now]]_vars

C21_Witness ==
  /\ tbLast.kind = "check"
  /\ tbLast.answer = "429"
  /\ tbLast.got /\ tbLast.stored
  /\ tbState.tokens = tbLast.seen
  /\ tbState.ts = now
  /\ now > 0

(***************************************************************************)
(* C22: when the read or the write of the bucket state fails, the request  *)
(* is allowed: the middleware passes it on and does not answer 429.        *)
(***************************************************************************)
C22_FailOpen ==
  [][(TbCheckStep /\ (~tbLast'.got \/ ~tbLast'.stored)) => tbLast'.answer = "next"]_vars

(***************************************************************************)
(* C23: a check made capacity / sustainedRps seconds or more after the     *)
(* stored bucket was last updated sees a full bucket, and so does a check  *)
(* that finds no stored bucket.                                            *)
(***************************************************************************)
C23_FullAfterIdle ==
  [][TbCheckStep =>
       /\ (/\ tbState.held
           /\ (now - tbState.ts) * sustainedRps >= (sustainedRps + burstCapacity) * Milli)
            => tbLast'.seen = (sustainedRps + burstCapacity) * Milli
       /\ ~tbState.held => tbLast'.seen = (sustainedRps + burstCapacity) * Milli]_vars

C23_Witness ==
  /\ tbLast.kind = "check"
  /\ tbLast.got /\ ~tbLast.stored
  /\ tbState.held
  /\ tbState.tokens < Milli
  /\ (now - tbState.ts) * sustainedRps >= (sustainedRps + burstCapacity) * Milli
  /\ tbLast.seen = (sustainedRps + burstCapacity) * Milli

(***************************************************************************)
(* C28: every allowed check takes one token out of the stored bucket, also *)
(* when checks of one client interleave between their cache read and       *)
(* their cache write; so the allowed checks and the tokens left together   *)
(* never exceed capacity + sustainedRps x elapsed time.                    *)
(***************************************************************************)
C28_AllowedWithinBudget ==
  tbState.held =>
    tbAllowed * Milli + tbState.tokens
      <= (sustainedRps + burstCapacity) * Milli + sustainedRps * now

(***************************************************************************)
(* C24: after a create for long URL u has returned short code c, a GET of  *)
(* c is answered with a redirect (302) to u.  Stated for the runs in which *)
(* the store answered every insert of the create and the cache and the     *)
(* store answered the lookup.                                              *)
(***************************************************************************)
CreateAnswered == call.pc \in {"done", "responded"} /\ call.ret # NoCode

C24_CreateThenRedirect ==
  [][(/\ CreateAnswered
      /\ call.out \in {"ok", "exists"}
      /\ last'.kind = "read"
      /\ last'.code = call.ret
      /\ last'.path \in {"hit", "store", "absent"}) =>
        redirectFromShortUrl(last'.url) = [status |-> 302, location |-> call.url]]_vars

(***************************************************************************)
(* C25 as claimed: the stored click count of a mapping never decreases,    *)
(* and every lookup that returns the mapping, a lookup answered from the   *)
(* cache included, increments it.                                          *)
(***************************************************************************)
ClicksNeverDecrease ==
  \A c \in DOMAIN store :
    c \in DOMAIN store' /\ store'[c].clicks >= store[c].clicks

C25_ClicksEveryLookup ==
  [][/\ ClicksNeverDecrease
     /\ (last'.kind = "read" /\ last'.url # NoUrl /\ last'.code \in DOMAIN store) =>
          store'[last'.code].clicks = store[last'.code].clicks + 1]_vars

(***************************************************************************)
(* C25 as amended: the stored click count never decreases; a lookup that   *)
(* is answered by a store query adds exactly one to it in that query; a    *)
(* lookup answered from the cache leaves the store as it is and adds one   *)
(* to the analytics total kept in the cache when that update goes through. *)
(***************************************************************************)
C25_ClicksPerStoreQuery ==
  [][/\ ClicksNeverDecrease
     /\ last'.kind = "read" =>
          /\ last'.path \in {"store", "fallback_store"} =>
               store'[last'.code].clicks = store[last'.code].clicks + 1
          /\ last'.path = "hit" =>
               /\ store' = store
               /\ analytics'[last'.code] \in {analytics[last'.code], analytics[last'.code] + 1}
          /\ last'.path # "hit" => analytics' = analytics]_vars

C25_Witness ==
  /\ last.kind = "read"
  /\ last.path = "hit"
  /\ last.code \in DOMAIN store
  /\ store[last.code].clicks = 1
  /\ analytics[last.code] = 1

InsertInFlight(c, u) ==
  \/ call.pc = "run" /\ call.url = u
  \/ InsertRunning(c, u)
  \/ \E i \in DOMAIN bg : bg[i].code = c /\ bg[i].url = u /\ bg[i].st = "scheduled"

C27_ClosedCountsFailures ==
  [][cb.state = "CLOSED" =>
       /\ cb.failureCount < failureThreshold
       /\ ev' = "success" => (cb'.failureCount = 0 /\ cb'.state = "CLOSED")
       /\ ev' = "failure" => cb'.failureCount = cb.failureCount + 1
       /\ cb'.state # "HALF_OPEN"
       /\ cb'.state = "OPEN" =>
            /\ ev' = "failure"
            /\ failRun' = failureThreshold
            /\ cb'.lastFailureTime = now]_vars

C27_Witness ==
  /\ ev = "failure"
  /\ cb.state = "OPEN"
  /\ failRun = failureThreshold
  /\ inflight = 1
  /\ now > 0

(***************************************************************************)
(* C29: the background persistence of a degraded create is scheduled by    *)
(* the step in which the service returns the code and has made no insert   *)
(* by then; it makes at most maxRetries inserts, each later one after a    *)
(* delay at least twice the one before; the first successful insert ends   *)
(* it, and an ended task never acts again; none of its steps changes what  *)
(* the caller was given; and the client's disconnect leaves the task as it *)
(* is, free to make its remaining attempts.                                *)
(***************************************************************************)
BgInserts(t) == t.retryCount + (IF t.st = "done" THEN 1 ELSE 0)

C29_BackgroundPersistence ==
  [][/\ \A i \in DOMAIN bg' \ DOMAIN bg :
          /\ call.pc = "run"
          /\ call'.pc = "done" /\ call'.result = "degraded" /\ call'.ret = bg'[i].code
          /\ bg'[i].st = "scheduled" /\ BgInserts(bg'[i]) = 0
          /\ bg'[i].delay = 100
     /\ \A i \in DOMAIN bg :
          /\ BgInserts(bg'[i]) <= 3
          /\ bg[i].st \in {"done", "failed"} => bg'[i] = bg[i]
          /\ bg'[i] # bg[i] =>
               /\ call.pc \in {"done", "responded"}
               /\ call' = call
               /\ closed' = closed /\ finished' = finished
               /\ BgInserts(bg'[i]) = BgInserts(bg[i]) + 1
               /\ bg'[i].out = "ok" <=> bg'[i].st = "done"
               /\ bg'[i].st = "scheduled" =>
                    /\ bg'[i].delay >= 2 * bg[i].delay
                    /\ bg[i].retryCount >= 1 => bg'[i].delay = 2 * bg[i].delay
               /\ bg'[i].st # "scheduled" => bg'[i].delay = bg[i].delay
     /\ closed'[Creator] # closed[Creator] => bg' = bg]_vars

C29_Witness ==
  \E i \in DOMAIN bg :
    /\ closed[Creator] /\ ~finished[Creator]
    /\ call.result = "degraded" /\ call.ret = bg[i].code
    /\ bg[i].gone
    /\ bg[i].st = "done"
    /\ bg[i].retryCount = maxRetries - 1
    /\ bg[i].delay = 4000
    /\ Stored(bg[i].code, bg[i].url)

(***************************************************************************)
(* C30: a lookup made while the breaker is OPEN and the recovery timeout   *)
(* has not run out reads nothing from the cache and writes nothing to it,  *)
(* leaves the breaker as it is, queries the store exactly once, and        *)
(* returns what that query gives: the stored mapping (whose click count    *)
(* the query raises by one), 'not found' when the store has no record of   *)
(* the code, and 'not found' when the query fails or times out.            *)
(***************************************************************************)
C30_OpenSkipsCache ==
  [][(/\ last'.kind = "read"
      /\ cb.state = "OPEN"
      /\ now - cb.lastFailureTime <= recoveryTimeout) =>
       /\ ~last'.adm
       /\ last'.co = "none"
       /\ cb' = cb
       /\ cache' = cache
       /\ analytics' = analytics
       /\ last'.q = 1
       /\ last'.path \in {"fallback_store", "fallback_absent", "fallback_failed"}
       /\ last'.path = "fallback_store" =>
            /\ last'.code \in DOMAIN store
            /\ last'.url = store[last'.code].full_url
            /\ store'[last'.code].clicks = store[last'.code].clicks + 1
       /\ last'.path = "fallback_absent" =>
            /\ last'.code \notin DOMAIN store
            /\ last'.url = NoUrl
            /\ store' = store
       /\ last'.path = "fallback_failed" =>
            /\ last'.url = NoUrl
            /\ store' = store]_vars

C30_Witness ==
  /\ last.kind = "read"
  /\ ~last.adm
  /\ last.path = "fallback_store"
  /\ cb.state = "OPEN"
  /\ now - cb.lastFailureTime <= recoveryTimeout
  /\ last.code \in DOMAIN cache
  /\ last.code \in DOMAIN store
  /\ last.url = store[last.code].full_url
  /\ store[last.code].clicks = 1
  /\ analytics[last.code] = 0

(***************************************************************************)
(* C31: every lookup records exactly one response-time sample before it    *)
(* returns, whichever way it goes: cache hit, cache miss answered by the   *)
(* store, fallback to the store, fallback failure.                         *)
(***************************************************************************)
C31_OneSamplePerLookup ==
  [][last'.kind = "read" =>
       /\ last'.path \in {"hit", "store", "absent", "fallback_store", "fallback_absent",
                          "fallback_failed"}
       /\ last'.rt = 1]_vars

C31_Witness ==
  /\ last.kind = "read"
  /\ last.path = "fallback_failed"
  /\ last.q = 2
  /\ last.rt = 1
  /\ nReads = MaxReads

(***************************************************************************)
(* C32: a create with a generated code never ends in a store-timeout or    *)
(* store-unavailable error: an insert that fails for any reason other than *)
(* a collision ends the call with the generated code returned, and the     *)
(* only error such a create can end in is the exhaustion error.            *)
(***************************************************************************)
C32_GeneratedNeverStoreError ==
  [][(call.pc = "run" /\ call.custom = NoCode /\ call'.pc = "done") =>
       /\ call'.result \in {"ok", "degraded", "exhausted"}
       /\ call'.out \in {"timeout", "down"} =>
            /\ call'.result = "degraded"
            /\ call'.ret = call'.code
            /\ call'.ret \in Codes]_vars

C32_Witness ==
  /\ call.pc = "done"
  /\ call.custom = NoCode
  /\ call.out = "down"
  /\ call.result = "degraded"
  /\ call.ret \in Codes
  /\ call.colls = 2
  /\ last.kind = "create"

(***************************************************************************)
(* C33: when a create returns a generated code c for long URL u, the store *)
(* or the cache holds c -> u at that moment, also when the store is        *)
(* unavailable and the cache write of the degrade path fails.              *)
(***************************************************************************)
Cached(code, url) == code \in DOMAIN cache /\ cache[code].full_url = url

C33_ReturnedIsHeld ==
  (/\ last.kind = "create"
   /\ ~last.custom
   /\ last.path \in {"ok", "degraded"}) =>
     (Stored(last.code, last.url) \/ Cached(last.code, last.url))

(***************************************************************************)
(* C34: the breaker never goes from OPEN to CLOSED in one step, also when  *)
(* a call started before the breaker opened succeeds while it is OPEN.     *)
(***************************************************************************)
C34_NoOpenToClosed ==
  [][cb.state = "OPEN" => cb'.state # "CLOSED"]_vars

(***************************************************************************)
(* C35: whenever the store holds a mapping for a code and the cache holds  *)
(* an entry for the same code, the cached long URL is the stored one.      *)
(***************************************************************************)
C35_CacheAgreesWithStore ==
  \A c \in DOMAIN cache \cap DOMAIN store : cache[c].full_url = store[c].full_url

(***************************************************************************)
(* C36: one lookup issues at most one find-and-increment query, so one     *)
(* lookup raises a stored click count by at most 1: the click count of a   *)
(* code never exceeds the number of lookups made.                          *)
(***************************************************************************)
C36_OneIncrementPerLookup ==
  /\ last.kind = "read" => last.q <= 1
  /\ \A c \in DOMAIN store : store[c].clicks <= nReads

(***************************************************************************)
(* C37: in every reachable state a non-empty queue implies that            *)
(* processingRequests equals MAX_CONCURRENT_REQUESTS.                      *)
(***************************************************************************)
C37_QueueOnlyAtCapacity ==
  requestQueue # << >> => processingRequests = MAX_CONCURRENT_REQUESTS

C37_Witness ==
  /\ requestQueue # << >>
  /\ processingRequests = MAX_CONCURRENT_REQUESTS
  /\ \E r \in QReqs :
       /\ qTicket[r] > 0
       /\ qStage[r] = "admitted"
       /\ qListening[r]
  /\ \E r \in QReqs : qStage[r] = "admitted" /\ qFinished[r]

(***************************************************************************)
(* C39: in every reachable breaker state, CLOSED implies failureCount <    *)
(* failureThreshold, and OPEN implies that lastFailureTime is set (a time  *)
(* that has been reached, not null).                                       *)
(***************************************************************************)
C39_BreakerStateInvariant ==
  /\ cb.state = "CLOSED" => cb.failureCount < failureThreshold
  /\ cb.state = "OPEN" =>
       /\ cb.lastFailureTime # NULL
       /\ cb.lastFailureTime \in 0..now

C39_Witness ==
  /\ cb.state = "OPEN"
  /\ cb.failureCount = failureThreshold + 1
  /\ cb.lastFailureTime = now
  /\ now > 0
  /\ ev = "failure"

(***************************************************************************)
(* C38: if every request that is being handled completes, every request    *)
(* placed in the queue is eventually admitted, also while /health and      *)
(* /metrics requests keep arriving and are put at the front of the queue.  *)
(***************************************************************************)
C38_QueuedEventuallyAdmitted ==
  \A r \in QReqs : (qStage[r] = "queued") ~> (qStage[r] \in {"admitted", "late"})

====
